---- MODULE Spec2Model ----
(***************************************************************************)
(* Model of src/bit_stream_flasher.py: the Packet framing, the             *)
(* BitStreamTransferProtocol handshake over a byte-stream transport and    *)
(* the BitStreamTransmitter upload procedure.                              *)
(*                                                                         *)
(* Bytes are integers 0..255, byte strings are sequences of bytes.  The    *)
(* upload is a sequential, blocking procedure; it is cut at every call     *)
(* of the transport (each sp.write, each sp.read), pc naming the next      *)
(* call.  The peer is the environment: a read returns any byte of          *)
(* PeerBytes.                                                              *)
(***************************************************************************)
EXTENDS Integers, Sequences, FiniteSets

VARIABLES pc, data, addr_int, crc_mode, id, ret, written, rx, naks, session,
          arg, res

vars == <<pc, data, addr_int, crc_mode, id, ret, written, rx, naks, session,
          arg, res>>

(* ------------------------------ bounds --------------------------------- *)

\* largest number of body packets of a modelled file
MaxPackets == 3
\* uploads made with one protocol/transmitter pair
MaxSessions == 2
\* bytes outside the awaited set the peer delivers during one wait
MaxStray == 2

(* --------------------------- ControlChars ------------------------------ *)

ACK == 6
NAK == 21
SOH == 1
EOT == 4
CAN == 24
C == 67
START_TRANSMISSION == 49

\* Python's None (an unset attribute or an unbound local)
None == -1

(* ------------------------------ Packet --------------------------------- *)

MAX_SIZE == 256

RECURSIVE Pow2(_)
Pow2(n) == IF n = 0 THEN 1 ELSE 2 * Pow2(n - 1)

\* faulty variant: the bytes in little-endian order
int_to_bytes_little_endian(value, length) ==
    [k \in 1..length |-> (value \div Pow2(8 * (k - 1))) % 256]

\* bytes([(value >> i*8) & 0xff for i in reversed(range(length))])
int_to_bytes(value, length) ==
    [k \in 1..length |-> (value \div Pow2(8 * (length - k))) % 256]

\* Python's sum(payload), in runs of 16 bytes to keep the evaluation
\* shallow: run[k] sums the run of s[k] up to s[k], total[b] the first b runs
sum(s) ==
    LET n == Len(s)
        run[k \in 1..n] ==
            s[k] + (IF (k - 1) % 16 = 0 THEN 0 ELSE run[k - 1])
        total[b \in 0..((n + 15) \div 16)] ==
            IF b = 0 THEN 0
            ELSE total[b - 1] + run[IF 16 * b < n THEN 16 * b ELSE n]
    IN  total[(n + 15) \div 16]

\* Packet.__init__: the block number is kept only as its 2-byte encoding
Packet(block_number, payload) ==
    [_block_number |-> int_to_bytes(block_number, 2),
     _start_of_header |-> <<SOH>>,
     _payload |-> payload]

\* faulty variant: the checksum byte is counted in the length
_payload_length_with_check_sum(p) == int_to_bytes(Len(p._payload) + 1, 2)

_payload_length(p) == int_to_bytes(Len(p._payload), 2)

\* faulty variant: the block number bytes are summed too
_check_sum_with_header(p) ==
    int_to_bytes((sum(p._block_number) + sum(p._payload)) % 256, 1)

_check_sum(p) == int_to_bytes(sum(p._payload) % 256, 1)

as_bytearray(p) ==
    p._start_of_header \o p._block_number \o _payload_length(p)
        \o p._payload \o _check_sum(p)

(* ----------------------- BitStreamTransmitter -------------------------- *)

\* faulty variant: one more packet also when MAX_SIZE divides the length
_calc_num_required_packets_plus_one(file_length) ==
    file_length \div MAX_SIZE + 1

_calc_num_required_packets(file_length) ==
    IF file_length % MAX_SIZE = 0
    THEN file_length \div MAX_SIZE
    ELSE file_length \div MAX_SIZE + 1

\* faulty variant: never fewer than one packet
_num_required_packets_int_at_least_one ==
    IF Len(data) = 0 THEN 1 ELSE _calc_num_required_packets(Len(data))

_num_required_packets_int == _calc_num_required_packets(Len(data))

_address == int_to_bytes(addr_int, 4)

\* faulty variant: the metadata packet carries the byte count of the file
_num_required_packets_byte_count == int_to_bytes(Len(data), 4)

_num_required_packets == int_to_bytes(_num_required_packets_int, 4)

Min(a, b) == IF a < b THEN a ELSE b

\* faulty variant: the slice ends one byte early
Slice_short(s, lo, hi) == SubSeq(s, lo + 1, Min(hi - 1, Len(s)))

\* Python's s[lo:hi] for 0 <= lo <= hi
Slice(s, lo, hi) == SubSeq(s, lo + 1, Min(hi, Len(s)))

(* ------------------------------ inputs --------------------------------- *)

\* byte i of the modelled file with the given seed: the bytes of one chunk
\* are pairwise distinct and no two chunks are equal
FileByte(seed, i) == (seed + 3 * i + 5 * (i \div MAX_SIZE)) % 256

MakeFile(seed, len) == [k \in 1..len |-> FileByte(seed, k - 1)]

FileLengths == {L \in 0..(MaxPackets * MAX_SIZE) : L % MAX_SIZE \in {0, 1, 88}}

FileSeeds == {77}

Files == {MakeFile(seed, L) : seed \in FileSeeds, L \in FileLengths}

\* inputs of _calc_num_required_packets
Lengths == 0..(MaxPackets * MAX_SIZE + 1)

\* inputs of Packet: block numbers around the byte and the field boundaries
BlockNumbers == {0, 1, 2, 255, 256, 257, 4660, 65535, 65536, 65537}

\* payloads of every length 0..MAX_SIZE; the all-0xff ones have the
\* largest byte sum
Payloads ==
    {MakeFile(seed, L) : seed \in FileSeeds, L \in 0..MAX_SIZE}
        \cup {[k \in 1..L |-> 255] : L \in 0..MAX_SIZE}

\* target addresses: 0x03 and 0x01020304
Addresses == {3, 16909060}

\* what a read of the transport may return
PeerBytes == {ACK, NAK, C, CAN}

(* ------------------------------- state --------------------------------- *)

Init ==
    /\ pc = "idle"
    /\ data = <<>>
    /\ addr_int = 0
    /\ crc_mode = None
    /\ id = None
    /\ ret = "none"
    /\ written = <<>>
    /\ rx = <<>>
    /\ naks = 0
    /\ session = 0
    /\ arg = None
    /\ res = None

(* ------------------- BitStreamTransferProtocol: I/O -------------------- *)

\* _make_bytes of one ControlChars member: the one-byte string of its value
_make_bytes(ch) == <<ch>>

\* self._sp.write(bytes): the transport records the call; what was read
\* before it is no longer pending
sp_write(bytes) ==
    /\ written' = Append(written, bytes)
    /\ rx' = <<>>

\* self._sp.read(): one byte from the peer; a wait sees at most MaxStray
\* bytes outside the set it awaits
sp_read(ch, chars) ==
    /\ ch \in chars \/ Len(rx) < MaxStray
    /\ rx' = Append(rx, ch)

(* ------------------------------ actions -------------------------------- *)

\* upload_bitstream_to, up to the call of _start_transmission
upload_bitstream_to ==
    /\ pc \in {"idle", "done", "raised"}
    /\ session < MaxSessions
    /\ \E f \in Files, a \in Addresses :
          /\ data' = f
          /\ addr_int' = a
    /\ session' = session + 1
    /\ written' = <<>>
    /\ rx' = <<>>
    /\ ret' = "none"
    /\ naks' = 0
    /\ pc' = "start_transmission"
    /\ UNCHANGED <<crc_mode, id, arg, res>>

\* start_transmission: self._write(ControlChars.START_TRANSMISSION)
start_transmission ==
    /\ pc = "start_transmission"
    /\ sp_write(_make_bytes(START_TRANSMISSION))
    /\ pc' = "_check_crc_mode"
    /\ UNCHANGED <<data, addr_int, crc_mode, id, ret, naks, session, arg, res>>

\* faulty variant: an ACK ends the handshake wait too
_check_crc_mode_takes_ack ==
    /\ pc = "_check_crc_mode"
    /\ \E ch \in PeerBytes :
          /\ sp_read(ch, {C, NAK, ACK})
          /\ IF ch \in {C, NAK, ACK}
             THEN /\ crc_mode' = ch
                  /\ pc' = "_send_num_packets_and_address"
             ELSE UNCHANGED <<crc_mode, pc>>
    /\ UNCHANGED <<data, addr_int, id, ret, written, naks, session, arg, res>>

\* _check_crc_mode: one iteration of _wait_for_chars([C, NAK]); on a match
\* start_transmission stores the byte and returns
_check_crc_mode ==
    /\ pc = "_check_crc_mode"
    /\ \E ch \in PeerBytes :
          /\ sp_read(ch, {C, NAK})
          /\ IF ch \in {C, NAK}
             THEN /\ crc_mode' = ch
                  /\ pc' = "_send_num_packets_and_address"
             ELSE UNCHANGED <<crc_mode, pc>>
    /\ UNCHANGED <<data, addr_int, id, ret, written, naks, session, arg, res>>

\* faulty variant: the packet count before the address
_send_num_packets_and_address_swapped ==
    /\ pc = "_send_num_packets_and_address"
    /\ sp_write(as_bytearray(Packet(0, _num_required_packets \o _address)))
    /\ pc' = "_wait_for_ack"
    /\ UNCHANGED <<data, addr_int, crc_mode, id, ret, naks, session, arg, res>>

\* _send_num_packets_and_address: the write of send_packet(Packet(0, ...))
_send_num_packets_and_address ==
    /\ pc = "_send_num_packets_and_address"
    /\ sp_write(as_bytearray(Packet(0, _address \o _num_required_packets)))
    /\ pc' = "_wait_for_ack"
    /\ UNCHANGED <<data, addr_int, crc_mode, id, ret, naks, session, arg, res>>

\* faulty variant: only an ACK ends the wait, a NAK is dropped
_wait_for_ack_only_ack ==
    /\ pc = "_wait_for_ack"
    /\ \E ch \in PeerBytes :
          /\ sp_read(ch, {ACK})
          /\ IF ch = ACK
             THEN LET next == IF id = None THEN 0 ELSE id + 1 IN
                  /\ ret' = "True"
                  /\ IF next < _num_required_packets_int
                     THEN /\ id' = next
                          /\ pc' = "_send_bitfile_content"
                     ELSE /\ id' = None
                          /\ pc' = "stop_transmission"
             ELSE UNCHANGED <<ret, id, pc>>
    /\ UNCHANGED <<data, addr_int, crc_mode, written, naks, session, arg, res>>

\* faulty variant: a packet answered with NAK is sent again
_wait_for_ack_resend_on_nak ==
    /\ pc = "_wait_for_ack"
    /\ \E ch \in PeerBytes :
          /\ sp_read(ch, {ACK, NAK})
          /\ IF ch \in {ACK, NAK}
             THEN LET next == IF id = None THEN 0 ELSE id + 1 IN
                  /\ ret' = IF ch = ACK THEN "True" ELSE "False"
                  /\ naks' = IF ch = NAK THEN naks + 1 ELSE naks
                  /\ IF ch = NAK /\ naks < MaxPackets
                     THEN /\ id' = id
                          /\ pc' = IF id = None
                                   THEN "_send_num_packets_and_address"
                                   ELSE "_send_bitfile_content"
                     ELSE IF next < _num_required_packets_int
                     THEN /\ id' = next
                          /\ pc' = "_send_bitfile_content"
                     ELSE /\ id' = None
                          /\ pc' = "stop_transmission"
             ELSE UNCHANGED <<ret, naks, id, pc>>
    /\ UNCHANGED <<data, addr_int, crc_mode, written, session, arg, res>>

\* faulty variant: a CANCEL from the peer aborts the upload
_wait_for_ack_cancel_aborts ==
    /\ pc = "_wait_for_ack"
    /\ \E ch \in PeerBytes :
          /\ sp_read(ch, {ACK, NAK})
          /\ IF ch \in {ACK, NAK}
             THEN LET next == IF id = None THEN 0 ELSE id + 1 IN
                  /\ ret' = IF ch = ACK THEN "True" ELSE "False"
                  /\ naks' = IF ch = NAK THEN naks + 1 ELSE naks
                  /\ IF next < _num_required_packets_int
                     THEN /\ id' = next
                          /\ pc' = "_send_bitfile_content"
                     ELSE /\ id' = None
                          /\ pc' = "stop_transmission"
             ELSE IF ch = CAN
             THEN /\ pc' = "raised"
                  /\ id' = None
                  /\ UNCHANGED <<ret, naks>>
             ELSE UNCHANGED <<ret, naks, id, pc>>
    /\ UNCHANGED <<data, addr_int, crc_mode, written, session, arg, res>>

\* _wait_for_ack: one iteration of _wait_for_chars([ACK, NAK]); on a match
\* send_packet returns (ch == ACK), which its caller drops, and the loop of
\* _send_bitfile_content takes its next index or ends
_wait_for_ack ==
    /\ pc = "_wait_for_ack"
    /\ \E ch \in PeerBytes :
          /\ sp_read(ch, {ACK, NAK})
          /\ IF ch \in {ACK, NAK}
             THEN LET next == IF id = None THEN 0 ELSE id + 1 IN
                  /\ ret' = IF ch = ACK THEN "True" ELSE "False"
                  /\ naks' = IF ch = NAK THEN naks + 1 ELSE naks
                  /\ IF next < _num_required_packets_int
                     THEN /\ id' = next
                          /\ pc' = "_send_bitfile_content"
                     ELSE /\ id' = None
                          /\ pc' = "stop_transmission"
             ELSE UNCHANGED <<ret, naks, id, pc>>
    /\ UNCHANGED <<data, addr_int, crc_mode, written, session, arg, res>>

\* faulty variant: the body packets are numbered from 0
_send_bitfile_content_from_zero ==
    /\ pc = "_send_bitfile_content"
    /\ sp_write(as_bytearray(Packet(id,
                    Slice(data, id * MAX_SIZE, (id + 1) * MAX_SIZE))))
    /\ pc' = "_wait_for_ack"
    /\ UNCHANGED <<data, addr_int, crc_mode, id, ret, naks, session, arg, res>>

\* faulty variant: the body packets are written without waiting for replies
_send_bitfile_content_no_wait ==
    /\ pc = "_send_bitfile_content"
    /\ sp_write(as_bytearray(Packet(id + 1,
                    Slice(data, id * MAX_SIZE, (id + 1) * MAX_SIZE))))
    /\ IF id + 1 < _num_required_packets_int
       THEN id' = id + 1 /\ pc' = "_send_bitfile_content"
       ELSE id' = None /\ pc' = "stop_transmission"
    /\ UNCHANGED <<data, addr_int, crc_mode, ret, naks, session, arg, res>>

\* faulty variant: in mode 'C' a body packet ends with a second check byte
_send_bitfile_content_by_mode ==
    /\ pc = "_send_bitfile_content"
    /\ sp_write(as_bytearray(Packet(id + 1,
                    Slice(data, id * MAX_SIZE, (id + 1) * MAX_SIZE)))
                \o (IF crc_mode = C THEN <<0>> ELSE <<>>))
    /\ pc' = "_wait_for_ack"
    /\ UNCHANGED <<data, addr_int, crc_mode, id, ret, naks, session, arg, res>>

\* _send_bitfile_content: the write of send_packet(Packet(id+1, chunk))
_send_bitfile_content ==
    /\ pc = "_send_bitfile_content"
    /\ sp_write(as_bytearray(Packet(id + 1,
                    Slice(data, id * MAX_SIZE, (id + 1) * MAX_SIZE))))
    /\ pc' = "_wait_for_ack"
    /\ UNCHANGED <<data, addr_int, crc_mode, id, ret, naks, session, arg, res>>

\* stop_transmission: self._write(ControlChars.EOT)
stop_transmission ==
    /\ pc = "stop_transmission"
    /\ sp_write(_make_bytes(EOT))
    /\ pc' = "read_until"
    /\ UNCHANGED <<data, addr_int, crc_mode, id, ret, naks, session, arg, res>>

\* faulty variant: a NAK ends the wait after EOT too
read_until_ack_or_nak ==
    /\ pc = "read_until"
    /\ \E ch \in PeerBytes :
          /\ sp_read(ch, {ACK, NAK})
          /\ pc' = IF ch \in {ACK, NAK} THEN "done" ELSE pc
    /\ UNCHANGED <<data, addr_int, crc_mode, id, ret, written, naks, session, arg, res>>

\* faulty variant: the wait after EOT gives up at the second byte read
read_until_gives_up ==
    /\ pc = "read_until"
    /\ \E ch \in PeerBytes :
          /\ sp_read(ch, {ACK})
          /\ pc' = IF ch = ACK \/ Len(rx) >= 1 THEN "done" ELSE pc
    /\ UNCHANGED <<data, addr_int, crc_mode, id, ret, written, naks, session, arg, res>>

\* self._sp.read_until(ACK): bytes are consumed until an ACK is read, then
\* stop_transmission and upload_bitstream_to return
read_until ==
    /\ pc = "read_until"
    /\ \E ch \in PeerBytes :
          /\ sp_read(ch, {ACK})
          /\ pc' = IF ch = ACK THEN "done" ELSE pc
    /\ UNCHANGED <<data, addr_int, crc_mode, id, ret, written, naks, session, arg, res>>

\* the positions of the upload at a call of the transport
TransportCalls ==
    {"start_transmission", "_check_crc_mode", "_send_num_packets_and_address",
     "_wait_for_ack", "_send_bitfile_content", "stop_transmission",
     "read_until"}

\* faulty variant: the session is closed with EOT when the transport fails
transport_error_sends_eot ==
    /\ pc \in TransportCalls
    /\ pc' = "raised"
    /\ id' = None
    /\ written' = Append(written, _make_bytes(EOT))
    /\ UNCHANGED <<data, addr_int, crc_mode, ret, rx, naks, session, arg, res>>

\* self._sp.write / read / read_until raises: nothing catches the error on
\* its way out of upload_bitstream_to, whose locals are dropped
transport_error ==
    /\ pc \in TransportCalls
    /\ pc' = "raised"
    /\ id' = None
    /\ UNCHANGED <<data, addr_int, crc_mode, ret, written, rx, naks, session,
                   arg, res>>

Next ==
    \/ upload_bitstream_to
    \/ start_transmission
    \/ _check_crc_mode
    \/ _send_num_packets_and_address
    \/ _wait_for_ack
    \/ _send_bitfile_content
    \/ stop_transmission
    \/ read_until
    \/ transport_error

Spec == Init /\ [][Next]_vars

(* --------------- the upload against a responsive peer ----------------- *)

\* the peer delivers a byte of the awaited set
Delivered ==
    /\ _check_crc_mode \/ _wait_for_ack \/ read_until
    /\ pc' # pc

\* the steps of an upload whose transport does not fail
NextLive ==
    \/ upload_bitstream_to
    \/ start_transmission
    \/ _check_crc_mode
    \/ _send_num_packets_and_address
    \/ _wait_for_ack
    \/ _send_bitfile_content
    \/ stop_transmission
    \/ read_until

\* a started upload runs on: its writes return, and the peer answers each
\* wait with a byte of the awaited set after finitely many others
SpecLive ==
    /\ Init
    /\ [][NextLive]_vars
    /\ WF_vars(start_transmission)
    /\ WF_vars(_send_num_packets_and_address)
    /\ WF_vars(_send_bitfile_content)
    /\ WF_vars(stop_transmission)
    /\ WF_vars(Delivered)

(* ------------- the pure functions, applied to their inputs ------------- *)

Idle ==
    /\ data = <<>>
    /\ addr_int = 0
    /\ crc_mode = None
    /\ id = None
    /\ ret = "none"
    /\ written = <<>>
    /\ rx = <<>>
    /\ naks = 0
    /\ session = 0

InitCalc ==
    /\ pc = "call"
    /\ arg \in Lengths
    /\ res = None
    /\ Idle

calc_num_required_packets_call ==
    /\ pc = "call"
    /\ res' = _calc_num_required_packets(arg)
    /\ pc' = "returned"
    /\ UNCHANGED <<data, addr_int, crc_mode, id, ret, written, rx, naks, session, arg>>

NextCalc == calc_num_required_packets_call

SpecCalc == InitCalc /\ [][NextCalc]_vars

InitPacket ==
    /\ pc = "call"
    /\ arg \in [block_number : BlockNumbers, payload : Payloads]
    /\ res = None
    /\ Idle

as_bytearray_call ==
    /\ pc = "call"
    /\ res' = as_bytearray(Packet(arg.block_number, arg.payload))
    /\ pc' = "returned"
    /\ UNCHANGED <<data, addr_int, crc_mode, id, ret, written, rx, naks, session, arg>>

NextPacket == as_bytearray_call

SpecPacket == InitPacket /\ [][NextPacket]_vars

TypeOK ==
    /\ pc \in {"idle", "start_transmission", "_check_crc_mode",
               "_send_num_packets_and_address", "_wait_for_ack",
               "_send_bitfile_content", "stop_transmission", "read_until",
               "done", "raised", "call", "returned"}
    /\ crc_mode \in {None, C, NAK}
    /\ ret \in {"none", "True", "False"}
    /\ session \in 0..MaxSessions

(* ------------------------------ claims --------------------------------- *)

\* C3: for every file length L >= 0 the packet count is ceil(L/256), the
\* least n with n*256 >= L: L/256 when 256 divides L, floor(L/256)+1
\* otherwise; the count of 0 is 0 and the count of 256 is 1.
C3_PacketCountIsCeil ==
    pc = "returned" =>
        /\ res * 256 >= arg
        /\ (res - 1) * 256 < arg
        /\ res = (arg + 255) \div 256
        /\ (arg = 0 => res = 0)
        /\ (arg = 256 => res = 1)

C3_Witness == pc = "returned" /\ arg = 256 /\ res = 1

\* the decoder of the fixed wire layout
Deserialize(bytes) ==
    LET n == bytes[4] * 256 + bytes[5] IN
    [block_number |-> bytes[2] * 256 + bytes[3],
     payload |-> SubSeq(bytes, 6, 5 + n)]

\* C4: for a block id b in 0..65535 and a payload p of 0..256 bytes the
\* serialized packet is SOH, b in 2 big-endian bytes, len(p) in 2
\* big-endian bytes, p, one checksum byte, and decoding that layout gives
\* back (b, p).
C4_SerializeRoundTrip ==
    (pc = "returned" /\ arg.block_number \in 0..65535) =>
        LET b == arg.block_number
            p == arg.payload
        IN  /\ Len(res) = Len(p) + 6
            /\ res[1] = 1
            /\ res[2] = b \div 256 /\ res[3] = b % 256
            /\ res[4] = Len(p) \div 256 /\ res[5] = Len(p) % 256
            /\ SubSeq(res, 6, 5 + Len(p)) = p
            /\ res[Len(res)] \in 0..255
            /\ Deserialize(res) = [block_number |-> b, payload |-> p]

C4_Witness ==
    /\ pc = "returned"
    /\ arg.block_number = 4660
    /\ Len(arg.payload) = 256
    /\ res[2] = 18 /\ res[3] = 52 /\ res[4] = 1 /\ res[5] = 0

\* the sum of s[k..hi], left to right
RECURSIVE RunSum(_, _, _)
RunSum(s, k, hi) == IF k > hi THEN 0 ELSE s[k] + RunSum(s, k + 1, hi)

\* the byte sum of s, in runs of 16 bytes
RECURSIVE ByteSumFrom(_, _)
ByteSumFrom(s, k) ==
    IF k > Len(s) THEN 0
    ELSE RunSum(s, k, Min(k + 15, Len(s))) + ByteSumFrom(s, k + 16)

ByteSum(s) == ByteSumFrom(s, 1)

\* C5: the last byte of a serialized packet is the sum of the payload
\* bytes modulo 256, 0 for an empty payload, whatever the header bytes.
C5_ChecksumIsPayloadSum ==
    pc = "returned" =>
        /\ res[Len(res)] = ByteSum(arg.payload) % 256
        /\ (arg.payload = <<>> => res[Len(res)] = 0)

C5_Witness ==
    /\ pc = "returned"
    /\ arg.block_number = 257
    /\ Len(arg.payload) = 256
    /\ ByteSum(arg.payload) > 256
    /\ res[Len(res)] # 0

(* --------------------- claims about one upload ------------------------- *)

\* an upload is in progress or has completed
InUpload ==
    pc \in {"start_transmission", "_check_crc_mode",
            "_send_num_packets_and_address", "_wait_for_ack",
            "_send_bitfile_content", "stop_transmission", "read_until",
            "done"}

\* ceil(L / 256)
PacketCount(L) == (L + 255) \div 256

\* the 2-byte block id field of a written packet
BlockId(bytes) == bytes[2] * 256 + bytes[3]

IsPacket(bytes) == Len(bytes) >= 6 /\ bytes[1] = 1

\* C1: the writes of one upload are the START byte '1', the metadata
\* packet with block id 0, the body packets with block ids 1, 2, ...,
\* packet_count in this order, then the EOT byte 0x04: every write made so
\* far is the one this sequence has at its position, and a completed
\* upload has made all of them and no more.
C1_WriteSequence ==
    InUpload =>
        LET n == PacketCount(Len(data)) IN
        /\ Len(written) <= n + 3
        /\ \A k \in 1..Len(written) :
              IF k = 1 THEN written[k] = <<49>>
              ELSE IF k = n + 3 THEN written[k] = <<4>>
              ELSE IsPacket(written[k]) /\ BlockId(written[k]) = k - 2
        /\ (pc = "done" => Len(written) = n + 3)

C1_Witness ==
    /\ pc = "done"
    /\ Len(data) = 600
    /\ Len(written) = 6
    /\ BlockId(written[2]) = 0
    /\ BlockId(written[5]) = 3
    /\ written[6] = <<4>>

\* the payloads of written[lo..hi], concatenated
RECURSIVE BodyBytes(_, _, _)
BodyBytes(w, lo, hi) ==
    IF lo > hi THEN <<>>
    ELSE BodyBytes(w, lo, hi - 1) \o Deserialize(w[hi]).payload

\* C2, for the files of up to MaxPackets chunks: the payloads of the body
\* packets of a completed upload, in the order of their writes (which is
\* the block-id order as long as the block ids increase), concatenate to
\* the file bytes, for any file length including 0.
C2_ChunkingExhaustive ==
    pc = "done" => BodyBytes(written, 3, Len(written) - 1) = data

C2_Witness ==
    /\ pc = "done"
    /\ Len(data) = 600
    /\ Len(Deserialize(written[5]).payload) = 88
    /\ data[513] = Deserialize(written[5]).payload[1]
    /\ data[1] # data[257]

\* C6: the metadata packet has block id 0 and a payload of 8 bytes, the
\* address in 4 big-endian bytes, then the packet count in 4 big-endian
\* bytes; 600 bytes at address 3 give 00 00 00 03 00 00 00 03.
C6_MetadataPacket ==
    (InUpload /\ Len(written) >= 2) =>
        LET m == Deserialize(written[2])
            n == PacketCount(Len(data))
            a == addr_int
        IN  /\ m.block_number = 0
            /\ Len(m.payload) = 8
            /\ Len(written[2]) = 14
            /\ m.payload = << a \div 16777216, (a \div 65536) % 256,
                              (a \div 256) % 256, a % 256,
                              n \div 16777216, (n \div 65536) % 256,
                              (n \div 256) % 256, n % 256 >>
            /\ (Len(data) = 600 /\ addr_int = 3
                    => m.payload = <<0, 0, 0, 3, 0, 0, 0, 3>>)

C6_Witness ==
    /\ pc = "_wait_for_ack"
    /\ id = None
    /\ Len(data) = 600
    /\ addr_int = 3
    /\ written[2] = <<1, 0, 0, 0, 8, 0, 0, 0, 3, 0, 0, 0, 3, 6>>

\* every byte of s but the last is outside chars
AllButLastOutside(s, chars) == \A k \in 1..(Len(s) - 1) : s[k] \notin chars

\* the number of packets written so far
PacketsWritten ==
    IF Len(written) = 0 THEN 0
    ELSE IF written[Len(written)] = <<4>> THEN Len(written) - 2
    ELSE Len(written) - 1

\* C7: send_packet writes the packet once and then reads single bytes,
\* dropping those that are neither ACK nor NAK; it returns at the first ACK
\* or NAK, with true exactly when that byte is ACK.
C7_SendPacket ==
    /\ pc = "_wait_for_ack" =>
          /\ \A k \in 1..Len(rx) : rx[k] \notin {6, 21}
          /\ IsPacket(written[Len(written)])
          /\ PacketsWritten = (IF id = None THEN 1 ELSE id + 2)
    /\ pc \in {"_send_bitfile_content", "stop_transmission"} =>
          /\ Len(rx) >= 1
          /\ rx[Len(rx)] \in {6, 21}
          /\ AllButLastOutside(rx, {6, 21})
          /\ ret \in {"True", "False"}
          /\ (ret = "True" <=> rx[Len(rx)] = 6)
          /\ IsPacket(written[Len(written)])
          /\ PacketsWritten = (IF id = None THEN
                                  PacketCount(Len(data)) + 1 ELSE id + 1)

C7_Witness ==
    /\ pc = "_send_bitfile_content"
    /\ id = 1
    /\ rx = <<24, 67, 21>>
    /\ ret = "False"

\* C8: a NAK stops and repeats nothing: the write that follows a packet
\* answered with NAK is the packet with the next block id, or EOT after the
\* last packet, and an upload that completes has written every packet
\* once, however many NAKs it received.
C8_NakIgnored ==
    [][(ret = "False" /\ written' # written /\ session' = session) =>
          LET k == BlockId(written[Len(written)])
              new == written'[Len(written')]
          IN  /\ Len(written') = Len(written) + 1
              /\ IF k < PacketCount(Len(data))
                 THEN IsPacket(new) /\ BlockId(new) = k + 1
                 ELSE new = <<4>>
              /\ (pc' = "read_until" => Len(written') = PacketCount(Len(data)) + 3)
      ]_vars

C8_Witness ==
    /\ pc = "done"
    /\ naks = 4
    /\ Len(written) = 6
    /\ \A k \in 2..5 : BlockId(written[k]) = k - 2

\* C9: for an empty file the upload writes the START byte and the metadata
\* packet with packet count 0, no body packet, and after the reply to the
\* metadata packet the EOT byte.
C9_EmptyFile ==
    (InUpload /\ Len(data) = 0) =>
        /\ pc # "_send_bitfile_content"
        /\ Len(written) <= 3
        /\ (Len(written) >= 1 => written[1] = <<49>>)
        /\ (Len(written) >= 2 =>
               /\ BlockId(written[2]) = 0
               /\ SubSeq(Deserialize(written[2]).payload, 5, 8) = <<0, 0, 0, 0>>)
        /\ (Len(written) = 3 => written[3] = <<4>>)
        /\ (pc \in {"read_until", "done"} => Len(written) = 3)
        /\ (pc = "_wait_for_ack" => Len(written) = 2)

C9_Witness ==
    /\ pc = "done"
    /\ data = <<>>
    /\ addr_int = 3
    /\ written = << <<49>>, <<1, 0, 0, 0, 8, 0, 0, 0, 3, 0, 0, 0, 0, 3>>, <<4>> >>

\* C10: start_transmission writes the START byte '1' once and then reads
\* single bytes, dropping those that are neither 'C' nor NAK (an ACK too);
\* it returns at the first 'C' or NAK, which is then the mode flag: a NAK
\* is taken as a mode and the upload goes on.
C10_StartTransmission ==
    /\ pc = "_check_crc_mode" =>
          /\ written = << <<49>> >>
          /\ \A k \in 1..Len(rx) : rx[k] \notin {67, 21}
    /\ pc = "_send_num_packets_and_address" =>
          /\ written = << <<49>> >>
          /\ Len(rx) >= 1
          /\ rx[Len(rx)] \in {67, 21}
          /\ AllButLastOutside(rx, {67, 21})
          /\ crc_mode = rx[Len(rx)]
    /\ pc \in {"_wait_for_ack", "_send_bitfile_content", "stop_transmission",
              "read_until", "done"} =>
          crc_mode \in {67, 21}

C10_Witness ==
    /\ pc = "_send_num_packets_and_address"
    /\ rx = <<6, 24, 21>>
    /\ crc_mode = 21
    /\ written = << <<49>> >>

\* the number of writes of w that are the single byte b
RECURSIVE CountWrites(_, _)
CountWrites(w, b) ==
    IF w = <<>> THEN 0
    ELSE (IF Head(w) = <<b>> THEN 1 ELSE 0) + CountWrites(Tail(w), b)

\* C11: stop_transmission writes EOT once and returns only when an ACK has
\* been read after that write; any other byte read in between, a NAK
\* too, is dropped without ending the wait or causing a write, so a
\* completed upload has read an ACK after its EOT.
C11_StopTransmission ==
    /\ pc = "read_until" =>
          /\ written[Len(written)] = <<4>>
          /\ CountWrites(written, 4) = 1
          /\ \A k \in 1..Len(rx) : rx[k] # 6
    /\ pc = "done" =>
          /\ written[Len(written)] = <<4>>
          /\ CountWrites(written, 4) = 1
          /\ Len(rx) >= 1
          /\ rx[Len(rx)] = 6
          /\ AllButLastOutside(rx, {6})

C11_Witness ==
    /\ pc = "done"
    /\ rx = <<21, 24, 6>>
    /\ written[Len(written)] = <<4>>

\* C12: block id 0 is reserved for the metadata packet: the packet built
\* for the i-th chunk, i >= 1, carries the block id field i, never 0, so
\* the block ids written in one upload are pairwise distinct.
C12_BlockIdReserved ==
    (pc = "returned" /\ arg.block_number >= 1) =>
        /\ BlockId(res) = arg.block_number
        /\ BlockId(res) # 0

\* C1, for every file: the block ids of the body packets are 1, 2, ...,
\* packet_count in strictly increasing order, so the packet built with
\* block number b >= 1 carries a block id greater by one than that of the
\* packet written before it.
C1_BlockIdsIncreasing ==
    (pc = "returned" /\ arg.block_number >= 1) =>
        BlockId(res) =
            BlockId(as_bytearray(Packet(arg.block_number - 1, <<>>))) + 1

\* the payloads of two written packets, concatenated in block-id order
InBlockIdOrder(p, q) ==
    IF BlockId(p) <= BlockId(q)
    THEN Deserialize(p).payload \o Deserialize(q).payload
    ELSE Deserialize(q).payload \o Deserialize(p).payload

\* the chunk sent before the one under test: one byte no payload starts with
PreviousChunk == <<170>>

\* C2, for any file length: concatenating the payloads of the body packets
\* in block-id order reproduces the file, so the packet built for chunk
\* b >= 2 sorts after the packet built for chunk b - 1, and their payloads
\* taken in block-id order are the two chunks in file order.
C2_BlockIdOrderIsFileOrder ==
    (pc = "returned" /\ arg.block_number >= 2) =>
        InBlockIdOrder(
            as_bytearray(Packet(arg.block_number - 1, PreviousChunk)), res)
          = PreviousChunk \o arg.payload

\* C15: when a call of the transport fails, the error leaves
\* upload_bitstream_to and that upload writes nothing more: no EOT, no
\* CANCEL, none of the packets still to be sent.
C15_ErrorPropagates ==
    [][/\ (pc' = "raised" => written' = written)
       /\ (pc = "raised" => pc' \in {"raised", "start_transmission"})
       /\ (pc = "raised" /\ pc' = "start_transmission" => session' = session + 1)
      ]_vars

C15_Witness ==
    /\ pc = "raised"
    /\ Len(data) = 600
    /\ Len(written) = 3
    /\ BlockId(written[3]) = 1
    /\ rx = <<>>

\* the replies awaited after the write w: 'C' or NAK after the START byte,
\* ACK after EOT, ACK or NAK after a packet
AwaitedAfter(w) ==
    IF w = <<49>> THEN {67, 21}
    ELSE IF w = <<4>> THEN {6}
    ELSE {6, 21}

\* C13: the channel is half-duplex: a write that follows another write of
\* the same upload is made only after a byte of the set awaited for the
\* earlier one has been read, so at most one write is unanswered.
C13_HalfDuplex ==
    [][(written' # written /\ written # <<>> /\ session' = session) =>
          /\ Len(written') = Len(written) + 1
          /\ Len(rx) >= 1
          /\ rx[Len(rx)] \in AwaitedAfter(written[Len(written)])
      ]_vars

C13_Witness ==
    /\ pc = "read_until"
    /\ Len(written) = 6
    /\ rx = <<>>
    /\ naks = 2

\* the positions where the upload blocks in a read
Waits == {"_check_crc_mode", "_wait_for_ack", "read_until"}

\* the bytes that end the wait at position p
AwaitedIn(p) ==
    IF p = "_check_crc_mode" THEN {67, 21}
    ELSE IF p = "_wait_for_ack" THEN {6, 21}
    ELSE {6}

\* C14: a silent peer hangs the upload: while the transport works, the
\* only step out of a wait is the read of a byte of the awaited set; any
\* other step of a waiting upload is the read of a byte that is dropped,
\* which writes nothing, sets nothing and leaves the upload in the same
\* wait, so without an awaited byte it never writes again, never times
\* out and never completes.
C14_SilentPeerHangs ==
    [][(pc \in Waits /\ pc' # "raised") =>
          /\ written' = written
          /\ Len(rx') = Len(rx) + 1
          /\ SubSeq(rx', 1, Len(rx)) = rx
          /\ (rx'[Len(rx')] \notin AwaitedIn(pc) =>
                 /\ pc' = pc
                 /\ crc_mode' = crc_mode
                 /\ ret' = ret
                 /\ id' = id)
          /\ (pc' # pc => rx'[Len(rx')] \in AwaitedIn(pc))
      ]_vars

C14_Witness ==
    /\ pc = "read_until"
    /\ rx = <<21, 24>>
    /\ Len(written) = 6

\* C16: the mode flag lives for one start/stop bracket: it is unset before
\* start_transmission and until the handshake completes, set from then
\* until stop_transmission returns, and unset again afterwards, so that no
\* session starts with the flag of an earlier one.
C16_ModeFlagBracket ==
    /\ pc \in {"idle", "start_transmission", "_check_crc_mode", "done"} =>
          crc_mode = None
    /\ pc \in {"_send_num_packets_and_address", "_wait_for_ack",
              "_send_bitfile_content", "stop_transmission", "read_until"} =>
          crc_mode \in {67, 21}

\* the 2-byte length field of a written packet
LengthField(bytes) == bytes[4] * 256 + bytes[5]

\* the bytes of a written packet between its header and its checksum
PayloadSize(bytes) == Len(bytes) - 6

\* C17: every packet written carries at most 256 payload bytes and a length
\* field equal to its payload length; the metadata packet carries 8 bytes,
\* every body packet but the last 256, the last body packet 1..256.
C17_PayloadSizes ==
    InUpload =>
        LET n == PacketCount(Len(data)) IN
        \A k \in 2..Len(written) :
            written[k] # <<4>> =>
                /\ LengthField(written[k]) = PayloadSize(written[k])
                /\ PayloadSize(written[k]) <= 256
                /\ (k = 2 => PayloadSize(written[k]) = 8)
                /\ (k > 2 /\ k - 2 < n => PayloadSize(written[k]) = 256)
                /\ (k > 2 /\ k - 2 = n =>
                       /\ PayloadSize(written[k]) = Len(data) - 256 * (n - 1)
                       /\ PayloadSize(written[k]) \in 1..256)

C17_Witness ==
    /\ pc = "done"
    /\ Len(data) = 600
    /\ PayloadSize(written[2]) = 8
    /\ PayloadSize(written[3]) = 256
    /\ PayloadSize(written[5]) = 88
    /\ LengthField(written[5]) = 88

\* C18: a CANCEL byte (0x18) read from the peer is dropped like any byte
\* that is not awaited: the wait goes on, nothing is written or set, the
\* upload is not aborted; and no write of the upload is the CANCEL byte.
C18_CancelIgnored ==
    [][/\ (rx' = Append(rx, 24) =>
              /\ pc' = pc
              /\ written' = written
              /\ crc_mode' = crc_mode
              /\ ret' = ret
              /\ id' = id)
       /\ (\A k \in 1..Len(written') : written'[k] # <<24>>)
      ]_vars

C18_Witness ==
    /\ pc = "done"
    /\ rx = <<24, 24, 6>>
    /\ Len(written) = 6
    /\ written[6] = <<4>>

\* v in 4 big-endian bytes
U32(v) ==
    << (v \div 16777216) % 256, (v \div 65536) % 256, (v \div 256) % 256,
       v % 256 >>

\* the frame of block id b and payload p
Frame(b, p) ==
    << 1, (b \div 256) % 256, b % 256, (Len(p) \div 256) % 256, Len(p) % 256 >>
        \o p \o << ByteSum(p) % 256 >>

\* the i-th chunk of 256 bytes of d, i >= 1
Chunk(d, i) ==
    [k \in 1..(IF 256 * i <= Len(d) THEN 256 ELSE Len(d) - 256 * (i - 1))
        |-> d[256 * (i - 1) + k]]

\* the writes of an upload of d to address a, from d and a alone
WritesOf(d, a) ==
    LET n == PacketCount(Len(d)) IN
    [k \in 1..(n + 3) |->
        IF k = 1 THEN <<49>>
        ELSE IF k = 2 THEN Frame(0, U32(a) \o U32(n))
        ELSE IF k = n + 3 THEN <<4>>
        ELSE Frame(k - 2, Chunk(d, k - 2))]

\* C19: the bytes written do not depend on the replies: the writes of a
\* completed upload are determined by the file and the address alone, so
\* any two completed uploads of the same file to the same address wrote
\* the same bytes, whatever the mode byte, the ACKs and NAKs, the stray
\* bytes and the state an earlier session left behind.
C19_WritesIndependentOfReplies ==
    pc = "done" => written = WritesOf(data, addr_int)

C19_Witness ==
    /\ pc = "done"
    /\ session = 2
    /\ crc_mode = 21
    /\ naks = 2
    /\ rx = <<67, 6>>
    /\ Len(written) = 6

\* the packet count carried by the metadata packet
MetadataCount ==
    LET p == Deserialize(written[2]).payload IN
    ((p[5] * 256 + p[6]) * 256 + p[7]) * 256 + p[8]

\* C20: against a responsive peer a started upload returns, having written
\* packet_count + 1 packets, and the packet count in its metadata packet is
\* the number of body packets it wrote.
C20_UploadTerminates ==
    (pc = "start_transmission") ~>
        (/\ pc = "done"
         /\ PacketsWritten = PacketCount(Len(data)) + 1
         /\ MetadataCount = PacketsWritten - 1)

C20_Witness ==
    /\ pc = "done"
    /\ Len(data) = 600
    /\ PacketsWritten = 4
    /\ MetadataCount = 3
    /\ naks = 1

====
